---- MODULE Spec2Model ----
(***************************************************************************)
(* Model of the real-time connection / presence / notification subsystem   *)
(* of Mercadito: the ConnectionManager singleton (websockets/connection.py)*)
(* , the WebSocket endpoint (websockets/router.py) and the background      *)
(* send_notification task (tasks/offers.py).                               *)
(*                                                                         *)
(* Every coroutine of the program is one or more actions; an action is     *)
(* the code between two points where the coroutine really waits (a sleep,  *)
(* a receive, the start of a handler).  The shared store (Redis) and the   *)
(* client side of each transport are the environment.                      *)
(***************************************************************************)
EXTENDS Integers, Sequences, FiniteSets, TLC

(***************************************************************************)
(* Bounds of the model.                                                    *)
(***************************************************************************)
NumTransports == 3      \* websocket objects 1..NumTransports
Sessions      == 2      \* connections that arrive, where not all NumTransports do
MaxTicks      == 3      \* the clock stops after MaxTicks sweep periods
MaxProduced   == 2      \* producer calls (send_personal_message, send_notification)
MaxAttempts   == 8      \* reconnection attempt counters drawn by InitRecon
JitterSteps   == 2      \* jitter takes the values j/JitterSteps, j in 0..JitterSteps-1
MaxFrames     == 4      \* a heartbeat task stops once its websocket got MaxFrames frames
MaxOffers     == 3      \* rows ever inserted in the offers table
MaxRequests   == 4      \* HTTP requests answered by the offers endpoints
MaxVersion    == 2      \* the requests carry a version in 0..MaxVersion

(***************************************************************************)
(* Program constants.                                                      *)
(***************************************************************************)
SweepPeriod    == 60    \* _connection_monitor: asyncio.sleep(60)
StaleSeconds   == 120   \* _connection_monitor: current_time - timestamp > 120
base_backoff   == 1
max_backoff    == 60
MaxPower       == 6     \* power = min(info["attempts"], 6)
InitialBackoff == 1     \* "last_backoff": 1
InitialVersion == 1      \* offers.py 98: version=1
InternalError  == 1011   \* websocket.close(code=1011)
PolicyViolation == 1008 \* websocket.close(code=1008)
NormalClosure  == 1000  \* close(code=1000, reason=...)

Users      == {"u1", "u2"}
Transports == 1..NumTransports
None       == 0          \* no websocket / no task
NoTime     == -1         \* key absent from connection_timestamps

(***************************************************************************)
(* Payloads.  A payload is a Python value: a dict ("obj"), a str ("str")   *)
(* or, after decoding, a number ("num").  The store holds text.            *)
(***************************************************************************)
ObjA      == [kind |-> "obj", v |-> "a"]
ObjB      == [kind |-> "obj", v |-> "b"]
StrEmpty  == [kind |-> "str", v |-> ""]
StrSeven  == [kind |-> "str", v |-> "7"]
NumSeven  == [kind |-> "num", v |-> "7"]
NoPayload == [kind |-> "none", v |-> ""]

\* what the connection manager's callers may hand over (message: Any)
ManagerPayloads == {ObjA, ObjB, StrEmpty, StrSeven}
\* what the background task hands over (notification_data: dict)
TaskPayloads    == {ObjA, ObjB}

\* json.dumps
Dumps(p) ==
    CASE p.kind = "obj" -> "{\"type\": \"" \o p.v \o "\"}"
      [] p.kind = "num" -> p.v
      [] OTHER          -> "\"" \o p.v \o "\""

JsonValues == {ObjA, ObjB, NumSeven, StrEmpty, StrSeven}

\* json.loads succeeds on text
IsJson(text) == \E p \in JsonValues : Dumps(p) = text

\* json.loads
Loads(text) == CHOOSE p \in JsonValues : Dumps(p) = text

\* _save_pending_message: message if isinstance(message, str) else json.dumps(message)
Encode(message) == IF message.kind = "str" THEN message.v ELSE Dumps(message)

\* get_pending_messages: json.loads(message), on JSONDecodeError the text itself
Decode(text) == IF IsJson(text) THEN Loads(text) ELSE [kind |-> "str", v |-> text]

\* get_pending_messages: "if not message: break" (None, or an empty string)
Falsy(text) == text = ""

(***************************************************************************)
(* Frames written to a transport.                                          *)
(***************************************************************************)
Frame(k, p, n, r) == [k |-> k, p |-> p, n |-> n, r |-> r]
PayloadFrame(p)        == Frame("payload", p, 0, "")
ConnectionStatusFrame  == Frame("connection_status", NoPayload, 0, "connected")
PendingDeliveredFrame(n) == Frame("system", NoPayload, n, "pending_delivered")
ConnectedFrame         == Frame("system", NoPayload, 0, "connected")
DisconnectFrame(reason) == Frame("system", NoPayload, 0, reason)
AuthErrorFrame         == Frame("error", NoPayload, 0, "")
ConnectionFailedFrame  == Frame("error", NoPayload, 0, "connection_failed")
PingFrame              == Frame("ping", NoPayload, 0, "")
HeartbeatFrame         == Frame("heartbeat", NoPayload, 0, "")
ReconnectInfoFrame(n)  == Frame("reconnect_info", NoPayload, n, "")

(***************************************************************************)
(* Tokens: what decode_jwt_token makes of the path parameter.              *)
(***************************************************************************)
Tokens == {"garbage", "nosub"} \cup Users

\* decode_jwt_token(token).get("sub"), "" when the token does not decode or has no sub
get_user_from_token(token) == IF token \in Users THEN token ELSE ""

VARIABLES
    active_connections,     \* user -> websocket (None: no entry)
    connection_timestamps,  \* user -> time.time() of the last activity (NoTime: no entry)
    ongoing_pings,          \* user -> websocket of its _ping_client task (None: no task)
    ping_wait,              \* user -> the _ping_client task is in its pong timeout
    failed_ping_users,      \* set of users
    reconnection_info,      \* user -> [present, attempts, last_backoff]
    publish_tasks,          \* <<user, reason>> of each spawned _publish_disconnect task not yet run
    sweep_stale,            \* _connection_monitor: stale_connections still to disconnect
    sweep_cur,              \* user whose force_disconnect, started by the sweep, waits
    listeners,              \* websockets whose _listen_to_redis_channel task is subscribed
    redis_up,               \* the shared store answers
    status,                 \* user:{id}:status
    presence,               \* per user, the last event published on user_presence
    pending,                \* user:{id}:pending_messages, a list of texts, head first
    pending_count,          \* user:{id}:pending_count
    now,                    \* the clock, seconds
    bcast,                  \* the broadcast() coroutine: its iterator and its locals
    offers,                 \* the offers table: offer id -> row
    products,               \* the products table: product id -> status
    creating,               \* <<buyer, product>> -> create_offer requests past their checks
    http,                   \* the last HTTP response of the offers endpoints
    expiring,               \* expire_offers_task: the rows it loaded and has yet to commit
    tstate,                 \* websocket -> "new" | "gone" | "open" | "halfopen" | "broken" | "closed"
    usr,                    \* websocket -> the user its handler authenticated ("" none)
    pc,                     \* websocket -> position of websocket_endpoint
    sent,                   \* websocket -> frames written to it without an exception
    close_code,             \* websocket -> code of the close the server issued (0 none)
    close_reason,           \* websocket -> reason of that close
    drained,                \* websocket -> what get_pending_messages returned to its handler
    heartbeat,              \* websocket -> its send_heartbeat task: "none" | "sleeping" | "sending" | "ended"
    produced,               \* number of producer calls made
    last_send,              \* the last producer call: user, payload, result, how the user
                            \* was, whether it published on a channel, whether it raised
    handed,                 \* user -> payloads handed to a producer for it
    enqueued,               \* user -> payloads enqueued since the last drain, oldest first
    misses,                 \* user -> consecutive unacknowledged probes of its session
    probe_acked,            \* user -> the client acknowledged the probe in flight
    last_ack,               \* user -> time of the last heartbeat_response of its session
    to_push,                \* user -> payloads of saves that have not reached their lpush
    to_incr,                \* user -> number of saves between their lpush and their incr
    draining,               \* websocket -> the get_pending_messages call of its handler
    last_frame              \* the last frame process_message logged or skipped, and its websocket

managerVars == <<active_connections, connection_timestamps, ongoing_pings, ping_wait,
                 failed_ping_users, reconnection_info, publish_tasks, sweep_stale, sweep_cur,
                 listeners>>
storeVars   == <<redis_up, status, presence, pending, pending_count>>
wsVars      == <<tstate, usr, pc, sent, close_code, close_reason, drained,
                 heartbeat>>
ghostVars   == <<produced, last_send, handed, enqueued, misses, probe_acked>>
dbVars      == <<offers, products, creating, http, expiring>>
\* the pending queue's commands under way
queueVars   == <<to_push, to_incr, draining>>
\* what the receive loop records
ackVars     == <<last_ack, last_frame>>
\* what the websocket coroutines other than broadcast and the receive loop leave alone
idleVars    == <<bcast, dbVars, ackVars, queueVars>>
\* what the offers endpoints leave alone
socketVars  == <<managerVars, storeVars, wsVars, ghostVars, now, bcast, ackVars, queueVars>>
vars        == <<managerVars, storeVars, wsVars, ghostVars, now, idleVars>>

\* the reasons disconnect is called with (router.py 94, 98: the default "unknown")
Reasons == {"unknown", "exception_on_send", "exception_on_broadcast", "ping_error",
            "ping_timeout", "stale_connection"}

\* the events of the user_presence channel (lines 123-130 and 335-343), without their time
NoEvent             == [status |-> "", reason |-> ""]
OnlineEvent         == [status |-> "online", reason |-> ""]
OfflineEvent(reason) == [status |-> "offline", reason |-> reason]

\* the marketplace: the products of one seller, the users as buyers
Seller   == "s1"
Products == {"p1", "p2"}
OfferIds == 1..MaxOffers
Accounts == Users \cup {Seller}

\* no row yet ("deleted": the row cancel_offer deleted)
NoOffer == [status |-> "none", product |-> "", buyer |-> "", version |-> 0, due |-> FALSE]

\* process_message has not logged or skipped a frame
NoFrame == [ws |-> None, data |-> ""]

\* no get_pending_messages call under way
NoDrain == [phase |-> "idle", msgs |-> <<>>]

\* expire_offers_task is not running
NoTask == [running |-> FALSE, rows |-> {}]

NoResponse == [op |-> "", code |-> 0, offer |-> 0, version |-> 0, served |-> 0]

\* no broadcast() was called
NoBroadcast == [state |-> "idle", payload |-> NoPayload, exclude |-> "", size |-> 0,
                seen |-> {}, wrote |-> {}, failed |-> {}, cur |-> ""]

NoInfo == [present |-> FALSE, attempts |-> 0, last_backoff |-> 0]
NoSend == [user |-> "", payload |-> NoPayload, result |-> FALSE, how |-> "", by |-> "",
           published |-> FALSE, raised |-> FALSE]

Init ==
    /\ active_connections = [u \in Users |-> None]
    /\ connection_timestamps = [u \in Users |-> NoTime]
    /\ ongoing_pings = [u \in Users |-> None]
    /\ ping_wait = [u \in Users |-> FALSE]
    /\ failed_ping_users = {}
    /\ reconnection_info = [u \in Users |-> NoInfo]
    /\ publish_tasks = {}
    /\ sweep_stale = {}
    /\ sweep_cur = ""
    /\ listeners = {}
    /\ redis_up = TRUE
    /\ status = [u \in Users |-> "none"]
    /\ presence = [u \in Users |-> NoEvent]
    /\ pending = [u \in Users |-> <<>>]
    /\ pending_count = [u \in Users |-> 0]
    /\ now = 0
    /\ bcast = NoBroadcast
    /\ offers = [o \in OfferIds |-> NoOffer]
    /\ products = [p \in Products |-> "active"]
    /\ creating = [r \in Users \X Products |-> 0]
    /\ http = NoResponse
    /\ expiring = NoTask
    /\ last_ack = [u \in Users |-> NoTime]
    /\ to_push = [u \in Users |-> {}]
    /\ to_incr = [u \in Users |-> 0]
    /\ draining = [t \in Transports |-> NoDrain]
    /\ last_frame = NoFrame
    /\ tstate = [t \in Transports |-> "new"]
    /\ usr = [t \in Transports |-> ""]
    /\ pc = [t \in Transports |-> "idle"]
    /\ sent = [t \in Transports |-> <<>>]
    /\ close_code = [t \in Transports |-> 0]
    /\ close_reason = [t \in Transports |-> ""]
    /\ drained = [t \in Transports |-> <<>>]
    /\ heartbeat = [t \in Transports |-> "none"]
    /\ produced = 0
    /\ last_send = NoSend
    /\ handed = [u \in Users |-> {}]
    /\ enqueued = [u \in Users |-> <<>>]
    /\ misses = [u \in Users |-> 0]
    /\ probe_acked = [u \in Users |-> FALSE]

(***************************************************************************)
(* Helpers.                                                                *)
(***************************************************************************)
\* websocket objects are numbered in the order their handlers start
Arrives(t) == pc[t] = "idle" /\ \A x \in Transports : x < t => pc[x] # "idle"

Min(a, b) == IF a <= b THEN a ELSE b

RECURSIVE Pow2(_)
Pow2(n) == IF n = 0 THEN 1 ELSE 2 * Pow2(n - 1)

\* a write (send_json) to the websocket returns without an exception
Writable(t) == tstate[t] \in {"open", "halfopen"}

\* sent, after send_json(frame) on websocket t inside a try that swallows the exception
TrySend(s, t, frame) == IF Writable(t) THEN [s EXCEPT ![t] = Append(@, frame)] ELSE s

\* the backoff without its ceiling
BackoffUncapped(attempts, j) ==
    base_backoff * Pow2(Min(attempts, MaxPower)) * JitterSteps + j

\* _handle_reconnection: min(max_backoff, base_backoff * 2 ** min(attempts, 6) + jitter),
\* in units of 1/JitterSteps second, j the jitter in those units
Backoff(attempts, j) ==
    Min(max_backoff * JitterSteps,
        base_backoff * Pow2(Min(attempts, MaxPower)) * JitterSteps + j)

\* a registration that leaves the counters of an existing record alone
KeepInfo(info) ==
    IF info.present THEN info
    ELSE [present |-> TRUE, attempts |-> 0, last_backoff |-> InitialBackoff * JitterSteps]

\* connect, lines 85-95: the record after a successful registration
ResetInfo(info) ==
    [present |-> TRUE, attempts |-> 0, last_backoff |-> InitialBackoff * JitterSteps]

\* _handle_reconnection, lines 237-260: the record after one more failed attempt
AfterFailure(info, j) ==
    LET cur == IF info.present THEN info
               ELSE [present |-> TRUE, attempts |-> 0,
                     last_backoff |-> InitialBackoff * JitterSteps]
        k   == cur.attempts + 1
    IN  [present |-> TRUE, attempts |-> k, last_backoff |-> Backoff(k, j)]

\* _handle_reconnection, lines 262-292: with the store up, the reconnect_info frame goes
\* to the websocket registered for the user, if there is one
ReconnectNotice(s, u, k) ==
    IF redis_up /\ active_connections[u] # None
    THEN TrySend(s, active_connections[u], ReconnectInfoFrame(k))
    ELSE s

(***************************************************************************)
(* websocket_endpoint, authentication failure (router.py 32-35, 101-108).  *)
(* alive: the client is still there when the handler accepts the handshake.*)
(***************************************************************************)
HandlerAuthFail(t, token, alive) ==
    /\ Arrives(t)
    /\ get_user_from_token(token) = ""
    /\ pc' = [pc EXCEPT ![t] = "rejected"]
    /\ IF alive
       THEN /\ tstate' = [tstate EXCEPT ![t] = "closed"]
            /\ sent' = [sent EXCEPT ![t] = <<AuthErrorFrame>>]
            /\ close_code' = [close_code EXCEPT ![t] = PolicyViolation]
       ELSE /\ tstate' = [tstate EXCEPT ![t] = "gone"]
            /\ UNCHANGED <<sent, close_code>>
    /\ UNCHANGED <<managerVars, storeVars, ghostVars, now, idleVars, usr, close_reason, drained,
                   heartbeat>>

(***************************************************************************)
(* websocket_endpoint up to the return of manager.connect (router.py 32-53 *)
(* , connection.py 65-140).                                                *)
(***************************************************************************)
ConnectRefused(t, u, j) ==
    \* accept() raises: _handle_reconnection, return False; the handler's error frame
    \* cannot be written either
    /\ pc' = [pc EXCEPT ![t] = "failed"]
    /\ tstate' = [tstate EXCEPT ![t] = "gone"]
    /\ reconnection_info' = [reconnection_info EXCEPT ![u] = AfterFailure(@, j)]
    /\ sent' = ReconnectNotice(sent, u, reconnection_info'[u].attempts)
    /\ UNCHANGED <<active_connections, connection_timestamps, ongoing_pings, ping_wait,
                   failed_ping_users, listeners, status, presence, close_code, close_reason,
                   misses, probe_acked>>

\* a connect that leaves the websocket registered before it open
ClosesOldNever(old) == FALSE

\* connect, lines 72-78: a websocket is registered for the user and old_ws.close()
\* does not raise
ClosesOld(old) == old # None /\ tstate[old] # "closed"

ConnectRegistered(t, u, j) ==
    LET old    == active_connections[u]
        closes == ClosesOld(old)
    IN
    /\ listeners' = IF redis_up THEN listeners \cup {t} ELSE listeners
    /\ tstate' = [x \in Transports |->
                    IF x = t THEN "open"
                    ELSE IF x = old /\ closes THEN "closed" ELSE tstate[x]]
    /\ close_code' = IF closes THEN [close_code EXCEPT ![old] = NormalClosure]
                     ELSE close_code
    /\ close_reason' = IF closes THEN [close_reason EXCEPT ![old] = "new_connection"]
                       ELSE close_reason
    /\ active_connections' = [active_connections EXCEPT ![u] = t]
    /\ connection_timestamps' = [connection_timestamps EXCEPT ![u] = now]
    /\ failed_ping_users' = failed_ping_users \ {u}
    /\ ongoing_pings' = [ongoing_pings EXCEPT ![u] = t]
    /\ ping_wait' = [ping_wait EXCEPT ![u] = FALSE]
    /\ misses' = [misses EXCEPT ![u] = 0]
    /\ probe_acked' = [probe_acked EXCEPT ![u] = FALSE]
    /\ IF redis_up
       THEN /\ status' = [status EXCEPT ![u] = "online"]
            /\ presence' = [presence EXCEPT ![u] = OnlineEvent]
            /\ reconnection_info' = [reconnection_info EXCEPT ![u] = ResetInfo(@)]
            /\ sent' = [sent EXCEPT ![t] = <<ConnectionStatusFrame>>]
            /\ pc' = [pc EXCEPT ![t] = "connected"]
       ELSE \* r.publish raises: _handle_reconnection (whose r.set raises too), return
            \* False; the handler sends its connection_failed frame and returns
            /\ UNCHANGED <<status, presence>>
            /\ reconnection_info' =
                   [reconnection_info EXCEPT ![u] = AfterFailure(ResetInfo(@), j)]
            /\ sent' = [sent EXCEPT ![t] = <<ConnectionStatusFrame, ConnectionFailedFrame>>]
            /\ pc' = [pc EXCEPT ![t] = "failed"]

HandlerConnect(t, token, alive, j) ==
    LET u == get_user_from_token(token) IN
    /\ Arrives(t)
    /\ u # ""
    /\ usr' = [usr EXCEPT ![t] = u]
    /\ IF alive THEN ConnectRegistered(t, u, j) ELSE ConnectRefused(t, u, j)
    /\ UNCHANGED <<publish_tasks, sweep_stale, sweep_cur, redis_up, pending, pending_count,
                   now, idleVars,
                   drained, heartbeat, produced, last_send, handed, enqueued>>

(***************************************************************************)
(* disconnect (lines 315-330) and force_disconnect (lines 296-313).        *)
(***************************************************************************)
\* a disconnect that spawns no _publish_disconnect task
DisconnectSilently(D, reason) ==
    LET R == {u \in D : active_connections[u] # None} IN
    /\ active_connections' = [u \in Users |-> IF u \in R THEN None ELSE active_connections[u]]
    /\ connection_timestamps' =
           [u \in Users |-> IF u \in R THEN NoTime ELSE connection_timestamps[u]]
    /\ ongoing_pings' = [u \in Users |-> IF u \in R THEN None ELSE ongoing_pings[u]]
    /\ ping_wait' = [u \in Users |-> IF u \in R THEN FALSE ELSE ping_wait[u]]
    /\ publish_tasks' = publish_tasks

\* disconnect(user_id, reason) for each user of D, one after the other, with ts the
\* timestamps they find
DisconnectFrom(ts, D, reason) ==
    LET R == {u \in D : active_connections[u] # None} IN
    /\ active_connections' = [u \in Users |-> IF u \in R THEN None ELSE active_connections[u]]
    /\ connection_timestamps' = [u \in Users |-> IF u \in R THEN NoTime ELSE ts[u]]
    /\ ongoing_pings' = [u \in Users |-> IF u \in R THEN None ELSE ongoing_pings[u]]
    /\ ping_wait' = [u \in Users |-> IF u \in R THEN FALSE ELSE ping_wait[u]]
    /\ publish_tasks' = publish_tasks \cup (R \X {reason})

DisconnectAll(D, reason) == DisconnectFrom(connection_timestamps, D, reason)

DisconnectRegistry(u, reason) == DisconnectAll({u}, reason)

\* a force_disconnect that closes without the notice frame
ForceCloseUnannounced(ws, reason) ==
    IF ws # None /\ Writable(ws)
    THEN /\ sent' = sent
         /\ tstate' = [tstate EXCEPT ![ws] = "closed"]
         /\ close_code' = [close_code EXCEPT ![ws] = NormalClosure]
         /\ close_reason' = [close_reason EXCEPT ![ws] = reason]
    ELSE UNCHANGED <<sent, tstate, close_code, close_reason>>

\* force_disconnect, lines 298-310: the notification frame and the close, on the
\* websocket registered when force_disconnect started
ForceClose(ws, reason) ==
    IF ws # None /\ Writable(ws)
    THEN /\ sent' = [sent EXCEPT ![ws] = Append(@, DisconnectFrame(reason))]
         /\ tstate' = [tstate EXCEPT ![ws] = "closed"]
         /\ close_code' = [close_code EXCEPT ![ws] = NormalClosure]
         /\ close_reason' = [close_reason EXCEPT ![ws] = reason]
    ELSE \* send_json raises: the close is skipped with it
         UNCHANGED <<sent, tstate, close_code, close_reason>>

\* force_disconnect run without another coroutine in between
ForceDisconnect(u, reason) ==
    /\ ForceClose(active_connections[u], reason)
    /\ DisconnectRegistry(u, reason)

\* _publish_disconnect, the task disconnect spawns (lines 332-349)
PublishDisconnect(u, reason) ==
    /\ <<u, reason>> \in publish_tasks
    /\ publish_tasks' = publish_tasks \ {<<u, reason>>}
    /\ IF redis_up
       THEN /\ presence' = [presence EXCEPT ![u] = OfflineEvent(reason)]
            /\ status' = [status EXCEPT ![u] = "offline"]
       ELSE \* the except of lines 348-349 logs
            UNCHANGED <<status, presence>>
    /\ UNCHANGED <<active_connections, connection_timestamps, ongoing_pings, ping_wait,
                   failed_ping_users, reconnection_info, sweep_stale, sweep_cur, listeners,
                   redis_up, pending, pending_count, wsVars, ghostVars, now, idleVars>>

(***************************************************************************)
(* _ping_client (lines 151-190): one probe is PingSend, then PingTimeout   *)
(* after the sleep of ping_timeout seconds.                                *)
(***************************************************************************)
\* failed_ping_users is a set (line 22): set has no count(), so line 174 raises
\* AttributeError, which the except of line 182 takes for a failed send
SetCountRaises == TRUE

\* what line 174 would count if failed_ping_users.count() existed
FailedCount(u) == IF u \in failed_ping_users THEN 1 ELSE 0

PingSend(u) ==
    /\ ongoing_pings[u] # None
    /\ ~ping_wait[u]
    /\ active_connections[u] # None
    /\ IF Writable(ongoing_pings[u])
       THEN /\ sent' = [sent EXCEPT ![ongoing_pings[u]] = Append(@, PingFrame)]
            /\ ping_wait' = [ping_wait EXCEPT ![u] = TRUE]
            /\ probe_acked' = [probe_acked EXCEPT ![u] = FALSE]
            /\ UNCHANGED <<active_connections, connection_timestamps, ongoing_pings,
                           publish_tasks, tstate, close_code, close_reason>>
       ELSE /\ ForceDisconnect(u, "ping_error")
            /\ UNCHANGED probe_acked
    /\ UNCHANGED <<failed_ping_users, reconnection_info, sweep_stale, sweep_cur, listeners,
                   storeVars, usr, pc, drained, heartbeat, produced, last_send, handed, enqueued,
                   misses, now, idleVars>>

PingTimeout(u) ==
    /\ ping_wait[u]
    /\ failed_ping_users' = failed_ping_users \cup {u}
    /\ misses' = [misses EXCEPT ![u] = IF probe_acked[u] THEN 0 ELSE @ + 1]
    /\ IF SetCountRaises
       THEN ForceDisconnect(u, "ping_error")
       ELSE IF FailedCount(u) >= 3
            THEN ForceDisconnect(u, "ping_timeout")
            ELSE /\ ping_wait' = [ping_wait EXCEPT ![u] = FALSE]
                 /\ UNCHANGED <<active_connections, connection_timestamps, ongoing_pings,
                                publish_tasks, sent, tstate, close_code, close_reason>>
    /\ UNCHANGED <<reconnection_info, sweep_stale, sweep_cur, listeners, storeVars, usr, pc,
                   drained, heartbeat, produced, last_send, handed, enqueued, probe_acked,
                   now, idleVars>>

(***************************************************************************)
(* _connection_monitor (lines 192-211): the scan of the timestamps, then   *)
(* one awaited force_disconnect per stale user.  A force_disconnect whose  *)
(* websocket takes the frame waits in send_json and close before it        *)
(* reaches self.disconnect; one whose user is gone, or whose send raises,  *)
(* does not wait.                                                          *)
(***************************************************************************)
Stale(u) ==
    /\ connection_timestamps[u] # NoTime
    /\ now - connection_timestamps[u] > StaleSeconds

\* the loop of lines 206-208 over the users S still to do, after disconnect() of the
\* users in done, up to its next wait: the users D it gets through without waiting,
\* then the user whose websocket it closes
SweepLoop(S, done) ==
    LET quiet == {u \in S : \/ active_connections[u] = None
                            \/ ~Writable(active_connections[u])}
        loud  == S \ quiet
    IN  \E D \in SUBSET quiet :
            /\ loud = {} => D = quiet
            /\ DisconnectAll(done \cup D, "stale_connection")
            /\ IF loud = {}
               THEN /\ sweep_cur' = ""
                    /\ sweep_stale' = {}
                    /\ UNCHANGED <<sent, tstate, close_code, close_reason>>
               ELSE \E u \in loud :
                        /\ sweep_cur' = u
                        /\ sweep_stale' = S \ (D \cup {u})
                        /\ ForceClose(active_connections[u], "stale_connection")

SweepScan ==
    /\ sweep_cur = ""
    /\ sweep_stale = {}
    /\ SweepLoop({u \in Users : Stale(u)}, {})
    /\ UNCHANGED <<failed_ping_users, reconnection_info, listeners, storeVars, usr, pc,
                   drained, heartbeat, ghostVars, now, idleVars>>

\* the force_disconnect in flight reaches self.disconnect(user_id, reason), and the loop
\* goes on
SweepDisconnect(u) ==
    /\ sweep_cur = u
    /\ SweepLoop(sweep_stale, {u})
    /\ UNCHANGED <<failed_ping_users, reconnection_info, listeners, storeVars, usr, pc,
                   drained, heartbeat, ghostVars, now, idleVars>>

\* time passes
Tick ==
    /\ now < MaxTicks * SweepPeriod
    /\ now' = now + SweepPeriod
    /\ UNCHANGED <<managerVars, storeVars, wsVars, ghostVars, idleVars>>

(***************************************************************************)
(* The environment: clients and the shared store.                          *)
(***************************************************************************)
\* the client of an accepted websocket vanishes without a close frame: the server
\* either keeps writing into the void (halfopen) or gets an error on every write
ClientVanish(t, mode) ==
    /\ \/ tstate[t] = "open"
       \/ tstate[t] = "halfopen" /\ mode = "broken"
    /\ tstate' = [tstate EXCEPT ![t] = mode]
    /\ UNCHANGED <<managerVars, storeVars, usr, pc, sent, close_code, close_reason,
                   drained, heartbeat, ghostVars, now, idleVars>>

\* the store becomes unreachable: every call raises, pubsub.listen() raises in every
\* listener task, which ends
StoreFail ==
    /\ redis_up
    /\ redis_up' = FALSE
    /\ listeners' = {}
    /\ UNCHANGED <<active_connections, connection_timestamps, ongoing_pings, ping_wait,
                   failed_ping_users, reconnection_info, publish_tasks, sweep_stale, sweep_cur,
                   status, presence, pending, pending_count, wsVars, ghostVars, now, idleVars>>

StoreRecover ==
    /\ ~redis_up
    /\ redis_up' = TRUE
    /\ UNCHANGED <<managerVars, status, presence, pending, pending_count, wsVars, ghostVars,
                   now, idleVars>>

(***************************************************************************)
(* websocket_endpoint, the receive loop (router.py 88-99, 131-163).        *)
(***************************************************************************)
\* a heartbeat_response frame arrives: process_message does nothing with it
HeartbeatResponse(t) ==
    /\ pc[t] = "receiving"
    /\ tstate[t] = "open"
    /\ probe_acked' = IF active_connections[usr[t]] = t /\ ping_wait[usr[t]]
                      THEN [probe_acked EXCEPT ![usr[t]] = TRUE]
                      ELSE probe_acked
    /\ last_ack' = IF active_connections[usr[t]] = t
                   THEN [last_ack EXCEPT ![usr[t]] = now]
                   ELSE last_ack
    /\ UNCHANGED <<managerVars, storeVars, wsVars, produced, last_send, handed,
                   enqueued, misses, now, bcast, dbVars, queueVars, last_frame>>

\* receive_text raises (the client closed, the connection broke, or the server closed
\* the websocket): manager.disconnect(user_id), heartbeat_task.cancel()
HandlerExit(t) ==
    /\ pc[t] = "receiving"
    /\ tstate[t] \in {"open", "broken", "closed"}
    /\ pc' = [pc EXCEPT ![t] = "done"]
    /\ heartbeat' = [heartbeat EXCEPT ![t] = "ended"]
    /\ tstate' = [tstate EXCEPT ![t] = "closed"]
    /\ DisconnectRegistry(usr[t], "unknown")
    /\ UNCHANGED <<failed_ping_users, reconnection_info, sweep_stale, sweep_cur, listeners,
                   storeVars, usr, sent, close_code, close_reason, drained, ghostVars,
                   now, idleVars>>

(***************************************************************************)
(* process_message (router.py 131-163) on the frames it takes no branch    *)
(* for.  The frames of a known type are the actions HeartbeatResponse,     *)
(* SendPersonalMessage and BroadcastToChannel.                             *)
(***************************************************************************)
Truncated   == "{\"type\": "
JsonArray   == "[\"chat_message\"]"
JsonString  == "\"chat_message\""
JsonNumber  == "7"
JsonNull    == "null"
UnknownType == "{\"type\": \"typing\"}"
NoType      == "{\"recipient_id\": \"u1\"}"

InboundFrames == {Truncated, JsonArray, JsonString, JsonNumber, JsonNull, UnknownType, NoType}

KnownTypes == {"chat_message", "product_update", "offer", "heartbeat_response"}

\* json.loads(data): the Python type of the value and, for a dict, what
\* message.get("type") returns
FrameLoads(data) ==
    CASE data = Truncated   -> [kind |-> "JSONDecodeError", type |-> ""]
      [] data = JsonArray   -> [kind |-> "list", type |-> ""]
      [] data = JsonString  -> [kind |-> "str", type |-> ""]
      [] data = JsonNumber  -> [kind |-> "int", type |-> ""]
      [] data = JsonNull    -> [kind |-> "NoneType", type |-> ""]
      [] data = UnknownType -> [kind |-> "dict", type |-> "typing"]
      [] data = NoType      -> [kind |-> "dict", type |-> "None"]

\* the exception the try block of lines 133-158 raises on data ("" none)
FrameError(data) ==
    LET message == FrameLoads(data) IN
    IF message.kind = "JSONDecodeError" THEN "JSONDecodeError"
    ELSE IF message.kind # "dict" THEN "AttributeError"
    ELSE ""

\* a process_message with the handler of line 159 only
CatchesDecodeError(error) == error = "JSONDecodeError"

\* lines 159-163: except json.JSONDecodeError, except Exception
Catches(error) == error \in {"JSONDecodeError", "AttributeError"}

ProcessMessage(t, data) ==
    LET error == FrameError(data) IN
    /\ pc[t] = "receiving"
    /\ tstate[t] = "open"
    /\ FrameLoads(data).type \notin KnownTypes
    /\ last_frame' = [ws |-> t, data |-> data]
    /\ IF error # "" /\ ~Catches(error)
       THEN \* the exception reaches the receive loop: disconnect, heartbeat_task.cancel()
            /\ pc' = [pc EXCEPT ![t] = "done"]
            /\ heartbeat' = [heartbeat EXCEPT ![t] = "ended"]
            /\ tstate' = [tstate EXCEPT ![t] = "closed"]
            /\ DisconnectRegistry(usr[t], "unknown")
       ELSE UNCHANGED <<active_connections, connection_timestamps, ongoing_pings, ping_wait,
                        publish_tasks, pc, heartbeat, tstate>>
    /\ UNCHANGED <<failed_ping_users, reconnection_info, sweep_stale, sweep_cur, listeners,
                   storeVars, usr, sent, close_code, close_reason, drained, ghostVars,
                   now, bcast, dbVars, last_ack, queueVars>>

(***************************************************************************)
(* send_heartbeat (router.py 121-129), the task the handler starts before  *)
(* its receive loop: the sleep ends and send_json is called, then send_json*)
(* returns.  Between the two the task waits inside the write.              *)
(***************************************************************************)
HeartbeatSend(t) ==
    /\ heartbeat[t] = "sleeping"
    /\ Len(sent[t]) < MaxFrames
    /\ heartbeat' = [heartbeat EXCEPT ![t] = IF Writable(t) THEN "sending" ELSE "ended"]
    /\ UNCHANGED <<managerVars, storeVars, tstate, usr, pc, sent, close_code,
                   close_reason, drained, ghostVars, now, idleVars>>

HeartbeatSent(t) ==
    /\ heartbeat[t] = "sending"
    /\ IF Writable(t)
       THEN /\ sent' = [sent EXCEPT ![t] = Append(@, HeartbeatFrame)]
            /\ heartbeat' = [heartbeat EXCEPT ![t] = "sleeping"]
       ELSE \* the websocket was closed or broke meanwhile: send_json raises, the task ends
            /\ sent' = sent
            /\ heartbeat' = [heartbeat EXCEPT ![t] = "ended"]
    /\ UNCHANGED <<managerVars, storeVars, tstate, usr, pc, close_code, close_reason,
                   drained, ghostVars, now, idleVars>>

(***************************************************************************)
(* The pending queue (connection.py 376-399, 438-463; tasks/offers.py      *)
(* 65-84).  The list is a Redis list: LPUSH adds at the head, RPOP takes   *)
(* from the tail.                                                          *)
(***************************************************************************)
LPush(list, text) == <<text>> \o list

\* get_pending_messages, the loop of lines 444-454 on the list: the decoded messages
\* it collects and what it leaves in the list
RECURSIVE PopAll(_)
PopAll(list) ==
    IF list = <<>>
    THEN [msgs |-> <<>>, rest |-> <<>>]
    ELSE LET text  == list[Len(list)]
             front == SubSeq(list, 1, Len(list) - 1)
         IN  IF Falsy(text)
             THEN [msgs |-> <<>>, rest |-> front]
             ELSE LET r == PopAll(front)
                  IN  [msgs |-> <<Decode(text)>> \o r.msgs, rest |-> r.rest]

\* a _save_pending_message that stores nothing
SkipPending(u, message) == UNCHANGED <<pending, pending_count, enqueued>>

\* _save_pending_message of either module; with the store down it logs and returns
SavePending(u, message) ==
    IF redis_up
    THEN /\ pending' = [pending EXCEPT ![u] = LPush(@, Encode(message))]
         /\ pending_count' = [pending_count EXCEPT ![u] = @ + 1]
         /\ enqueued' = [enqueued EXCEPT ![u] = Append(@, message)]
    ELSE UNCHANGED <<pending, pending_count, enqueued>>

\* a _save_pending_message whose store calls are outside its try
SaveRaisesWhenDown == ~redis_up

\* _save_pending_message, lines 378-399: get_redis and every store call are inside the
\* try, whose except logs and returns False
SaveRaises == FALSE

\* how the user's client is when a producer calls
ClientState(u) == IF active_connections[u] = None THEN "absent"
                  ELSE tstate[active_connections[u]]

(***************************************************************************)
(* send_personal_message (lines 351-374), as the endpoints and the receive *)
(* loop call it.                                                           *)
(***************************************************************************)
SendPersonalMessage(message, u) ==
    LET ws == active_connections[u]
        ok == ws # None /\ Writable(ws)
    IN
    /\ produced < MaxProduced
    /\ produced' = produced + 1
    /\ handed' = [handed EXCEPT ![u] = @ \cup {message}]
    /\ last_send' = [user |-> u, payload |-> message, result |-> ok,
                     how |-> ClientState(u), by |-> "manager",
                     \* lines 351-374 hold no publish call
                     published |-> FALSE, raised |-> (~ok /\ SaveRaises)]
    /\ IF ok
       THEN /\ sent' = [sent EXCEPT ![ws] = Append(@, PayloadFrame(message))]
            /\ connection_timestamps' = [connection_timestamps EXCEPT ![u] = now]
            /\ UNCHANGED <<active_connections, ongoing_pings, ping_wait, publish_tasks,
                           pending, pending_count, enqueued>>
       ELSE /\ DisconnectRegistry(u, "exception_on_send")
            /\ SavePending(u, message)
            /\ UNCHANGED sent
    /\ UNCHANGED <<failed_ping_users, reconnection_info, sweep_stale, sweep_cur, listeners,
                   redis_up, status, presence, tstate, usr, pc, close_code, close_reason,
                   drained, heartbeat, misses, probe_acked, now, idleVars>>

(***************************************************************************)
(* broadcast_to_channel (lines 423-436), as process_message calls it for a *)
(* product_update.  Nothing in the program subscribes to that channel.     *)
(***************************************************************************)
BroadcastToChannel(message) ==
    /\ produced < MaxProduced
    /\ produced' = produced + 1
    /\ last_send' = [user |-> "", payload |-> message, result |-> redis_up,
                     how |-> "channel", by |-> "channel",
                     published |-> redis_up, raised |-> FALSE]
    /\ UNCHANGED <<managerVars, storeVars, wsVars, handed, enqueued, misses,
                   probe_acked, now, idleVars>>

(***************************************************************************)
(* broadcast (lines 401-421).  The for statement iterates the registry     *)
(* itself, and each write is an await: BroadcastStart is the call up to    *)
(* its first write, BroadcastStep resumes it after a write.  The iterator  *)
(* raises RuntimeError when the size of the dict differs from its size at  *)
(* the start of the loop; the for statement is outside every try.  The     *)
(* order of the dict is not kept in the model: any registered entry not    *)
(* yet visited may come next, and an entry whose websocket was replaced    *)
(* since its visit may or may not be visited again.                        *)
(***************************************************************************)
Registered == {u \in Users : active_connections[u] # None}

\* the users the iterator has yet to yield, the excluded one skipped by "continue"
MustVisit(b) ==
    {u \in Registered \ {b.exclude} : \A t \in b.seen : usr[t] # u}

MayVisit(b) ==
    {u \in Registered \ {b.exclude} : active_connections[u] \notin b.seen}

\* lines 409-417 for the entry of u
BroadcastVisit(b, ts, u) ==
    LET ws == active_connections[u] IN
    /\ IF Writable(ws)
       THEN /\ sent' = [sent EXCEPT ![ws] = Append(@, PayloadFrame(b.payload))]
            /\ bcast' = [b EXCEPT !.seen = @ \cup {ws}, !.wrote = @ \cup {ws}, !.cur = u]
       ELSE /\ sent' = sent
            /\ bcast' = [b EXCEPT !.seen = @ \cup {ws}, !.failed = @ \cup {u}]
    /\ connection_timestamps' = ts
    /\ UNCHANGED <<active_connections, ongoing_pings, ping_wait, publish_tasks>>

\* the next step of the for statement of line 405, then lines 420-421
BroadcastIterate(b, ts) ==
    /\ IF Cardinality(Registered) # b.size
       THEN \* RuntimeError: dictionary changed size during iteration
            /\ bcast' = [b EXCEPT !.state = "raised"]
            /\ connection_timestamps' = ts
            /\ UNCHANGED <<active_connections, ongoing_pings, ping_wait, publish_tasks,
                           sent>>
       ELSE \/ \E u \in MayVisit(b) : BroadcastVisit(b, ts, u)
            \/ /\ MustVisit(b) = {}
               /\ bcast' = [b EXCEPT !.state = "done"]
               /\ DisconnectFrom(ts, b.failed, "exception_on_broadcast")
               /\ sent' = sent
    /\ UNCHANGED <<failed_ping_users, reconnection_info, sweep_stale, sweep_cur, listeners,
                   storeVars, tstate, usr, pc, close_code, close_reason, drained,
                   heartbeat, ghostVars, now, dbVars, ackVars, queueVars>>

BroadcastStart(message, exclude_user) ==
    /\ bcast.state = "idle"
    /\ BroadcastIterate([NoBroadcast EXCEPT !.state = "running", !.payload = message,
                                            !.exclude = exclude_user,
                                            !.size = Cardinality(Registered)],
                        connection_timestamps)

\* send_json returned: line 411 for the entry just written, then the loop goes on
BroadcastStep ==
    /\ bcast.state = "running"
    /\ BroadcastIterate([bcast EXCEPT !.cur = ""],
                        IF bcast.cur = "" THEN connection_timestamps
                        ELSE [connection_timestamps EXCEPT ![bcast.cur] = now])

(***************************************************************************)
(* send_notification, the background task (tasks/offers.py 32-63), and the *)
(* listeners its publish reaches (connection.py 41-48).  With the store    *)
(* down the task raises and is retried later.                              *)
(***************************************************************************)
Subscribers(u) == {t \in listeners : usr[t] = u}

TaskSendNotification(message, u) ==
    LET subs == Subscribers(u) IN
    /\ produced < MaxProduced
    /\ redis_up
    /\ produced' = produced + 1
    /\ handed' = [handed EXCEPT ![u] = @ \cup {message}]
    /\ last_send' = [user |-> u, payload |-> message, result |-> TRUE,
                     how |-> ClientState(u), by |-> "task",
                     published |-> (status[u] = "online"), raised |-> FALSE]
    /\ IF status[u] = "online" /\ subs # {}
       THEN /\ sent' = [t \in Transports |->
                          IF t \in subs /\ Writable(t)
                          THEN Append(sent[t], PayloadFrame(Loads(Dumps(message))))
                          ELSE sent[t]]
            /\ UNCHANGED <<pending, pending_count, enqueued>>
       ELSE /\ SavePending(u, message)
            /\ UNCHANGED sent
    /\ UNCHANGED <<managerVars, redis_up, status, presence, tstate, usr, pc, close_code,
                   close_reason, drained, heartbeat, misses, probe_acked, now, idleVars>>

(***************************************************************************)
(* websocket_endpoint after connect returned True (router.py 55-86): the   *)
(* drain of the pending queue, the confirmation, the second loop over the  *)
(* drained messages, the connected notice.                                 *)
(***************************************************************************)
\* get_pending_messages; with the store down it logs and returns []
GetPending(u) == IF redis_up THEN PopAll(pending[u])
                 ELSE [msgs |-> <<>>, rest |-> pending[u]]

Frames(msgs) == [i \in 1..Len(msgs) |-> PayloadFrame(msgs[i])]

\* router.py 55-86 with got what get_pending_messages popped and what it left
HandlerDelivers(t, got) ==
    LET u == usr[t] IN
    /\ pc[t] = "connected"
    /\ drained' = [drained EXCEPT ![t] = got.msgs]
    /\ pending' = [pending EXCEPT ![u] = got.rest]
    /\ pending_count' = IF got.msgs # <<>> THEN [pending_count EXCEPT ![u] = 0]
                        ELSE pending_count
    /\ enqueued' = IF redis_up THEN [enqueued EXCEPT ![u] = <<>>] ELSE enqueued
    /\ IF Writable(t)
       THEN /\ sent' = [sent EXCEPT ![t] =
                          @ \o Frames(got.msgs)
                            \o (IF got.msgs # <<>>
                                THEN <<PendingDeliveredFrame(Len(got.msgs))>>
                                ELSE <<>>)
                            \o Frames(got.msgs)
                            \o <<ConnectedFrame>>]
            /\ pc' = [pc EXCEPT ![t] = "receiving"]
            /\ heartbeat' = [heartbeat EXCEPT ![t] = "sleeping"]
       ELSE \* every send in the first loop is logged and dropped; the first send
            \* outside a try raises into the handler's last except, which returns
            /\ sent' = sent
            /\ pc' = [pc EXCEPT ![t] = "crashed"]
            /\ heartbeat' = heartbeat
    /\ draining' = [draining EXCEPT ![t] = NoDrain]
    /\ UNCHANGED <<managerVars, redis_up, status, presence, tstate, usr, close_code, close_reason,
                   produced, last_send, handed, misses, probe_acked, now, bcast, dbVars,
                   ackVars, to_push, to_incr>>

\* the handler with its get_pending_messages call run without another coroutine or
\* process in between
HandlerDrain(t) == HandlerDelivers(t, GetPending(usr[t]))

(***************************************************************************)
(* The pending queue command by command.  get_pending_messages awaits each *)
(* rpop and then the set of the count (connection.py 444-458); the         *)
(* manager's _save_pending_message awaits lpush and then incr (383-393);   *)
(* the task reads the status key, then issues lpush and incr from its own  *)
(* process (tasks/offers.py 42-77).                                        *)
(***************************************************************************)
QueuePayloads == {ObjA, ObjB}

\* rpop returns an entry that is not falsy: the loop goes on
DrainRPop(t) ==
    LET u == usr[t] IN
    /\ pc[t] = "connected"
    /\ redis_up
    /\ draining[t].phase \in {"idle", "popping"}
    /\ IF pending[u] = <<>> THEN FALSE ELSE ~Falsy(pending[u][Len(pending[u])])
    /\ draining' = [draining EXCEPT ![t] =
                       [phase |-> "popping",
                        msgs  |-> Append(@.msgs, Decode(pending[u][Len(pending[u])]))]]
    /\ pending' = [pending EXCEPT ![u] = SubSeq(@, 1, Len(@) - 1)]
    /\ UNCHANGED <<managerVars, redis_up, status, presence, pending_count, wsVars, ghostVars,
                   now, bcast, dbVars, ackVars, to_push, to_incr>>

\* rpop returns None or an empty string: the loop ends; with nothing collected the
\* call returns at once, otherwise the set of the count is still to come
DrainLast(t) ==
    LET u    == usr[t]
        rest == IF pending[u] = <<>> THEN <<>> ELSE SubSeq(pending[u], 1, Len(pending[u]) - 1)
    IN
    /\ pc[t] = "connected"
    /\ redis_up
    /\ draining[t].phase \in {"idle", "popping"}
    /\ IF pending[u] = <<>> THEN TRUE ELSE Falsy(pending[u][Len(pending[u])])
    /\ IF draining[t].msgs = <<>>
       THEN HandlerDelivers(t, [msgs |-> <<>>, rest |-> rest])
       ELSE /\ draining' = [draining EXCEPT ![t].phase = "reset"]
            /\ pending' = [pending EXCEPT ![u] = rest]
            /\ UNCHANGED <<managerVars, redis_up, status, presence, pending_count, wsVars,
                           ghostVars, now, bcast, dbVars, ackVars, to_push, to_incr>>

\* the set of the count to 0, then the handler goes on with what was collected
DrainReset(t) ==
    /\ draining[t].phase = "reset"
    /\ redis_up
    /\ HandlerDelivers(t, [msgs |-> draining[t].msgs, rest |-> pending[usr[t]]])

\* an rpop, or the set of the count, raises: get_pending_messages logs it and returns []
DrainFails(t) ==
    /\ ~redis_up
    /\ HandlerDelivers(t, [msgs |-> <<>>, rest |-> pending[usr[t]]])

\* send_notification of the task up to its decision to save: the status key is not
\* "online", or the publish reached no subscriber
TaskDecides(message, u) ==
    /\ produced < MaxProduced
    /\ redis_up
    /\ message \notin to_push[u]
    /\ ~(status[u] = "online" /\ Subscribers(u) # {})
    /\ produced' = produced + 1
    /\ handed' = [handed EXCEPT ![u] = @ \cup {message}]
    /\ to_push' = [to_push EXCEPT ![u] = @ \cup {message}]
    /\ UNCHANGED <<managerVars, storeVars, wsVars, last_send, enqueued, misses, probe_acked,
                   now, bcast, dbVars, ackVars, to_incr, draining>>

\* the lpush of a save the task decided on
TaskLPush(message, u) ==
    /\ message \in to_push[u]
    /\ redis_up
    /\ pending' = [pending EXCEPT ![u] = LPush(@, Encode(message))]
    /\ enqueued' = [enqueued EXCEPT ![u] = Append(@, message)]
    /\ to_push' = [to_push EXCEPT ![u] = @ \ {message}]
    /\ to_incr' = [to_incr EXCEPT ![u] = @ + 1]
    /\ UNCHANGED <<managerVars, redis_up, status, presence, pending_count, wsVars, produced,
                   last_send, handed, misses, probe_acked, now, bcast, dbVars, ackVars,
                   draining>>

\* send_personal_message for a user without a registry entry, up to the lpush of its
\* _save_pending_message
ManagerLPush(message, u) ==
    /\ produced < MaxProduced
    /\ redis_up
    /\ active_connections[u] = None
    /\ produced' = produced + 1
    /\ handed' = [handed EXCEPT ![u] = @ \cup {message}]
    /\ pending' = [pending EXCEPT ![u] = LPush(@, Encode(message))]
    /\ enqueued' = [enqueued EXCEPT ![u] = Append(@, message)]
    /\ to_incr' = [to_incr EXCEPT ![u] = @ + 1]
    /\ UNCHANGED <<managerVars, redis_up, status, presence, pending_count, wsVars, last_send,
                   misses, probe_acked, now, bcast, dbVars, ackVars, to_push, draining>>

\* the incr of a save whose lpush is done
SaveIncr(u) ==
    /\ to_incr[u] > 0
    /\ redis_up
    /\ pending_count' = [pending_count EXCEPT ![u] = @ + 1]
    /\ to_incr' = [to_incr EXCEPT ![u] = @ - 1]
    /\ UNCHANGED <<managerVars, redis_up, status, presence, pending, wsVars, ghostVars, now,
                   bcast, dbVars, ackVars, to_push, draining>>

\* the lpush of a save the task decided on raises: _save_pending_message logs it and
\* returns False, send_notification returns True
TaskLPushFails(message, u) ==
    /\ message \in to_push[u]
    /\ ~redis_up
    /\ to_push' = [to_push EXCEPT ![u] = @ \ {message}]
    /\ UNCHANGED <<managerVars, storeVars, wsVars, ghostVars, now, bcast, dbVars, ackVars,
                   to_incr, draining>>

\* the incr of a save raises after its lpush: logged, the count stays
SaveIncrFails(u) ==
    /\ to_incr[u] > 0
    /\ ~redis_up
    /\ to_incr' = [to_incr EXCEPT ![u] = @ - 1]
    /\ UNCHANGED <<managerVars, storeVars, wsVars, ghostVars, now, bcast, dbVars, ackVars,
                   to_push, draining>>

(***************************************************************************)
(* The offers endpoints (api/v1/endpoints/offers.py).  Each request works  *)
(* on the shared database through its own Session; the server processes    *)
(* are several, so two requests may be under way together.  The background *)
(* notifications they schedule are calls of send_personal_message.         *)
(***************************************************************************)
Exists(o) == offers[o].status \notin {"none", "deleted"}

Response(op, code, o, version) ==
    [op |-> op, code |-> code, offer |-> o, version |-> version, served |-> http.served + 1]

\* the rows the query of lines 75-79 finds
PendingOf(user, p) ==
    {o \in OfferIds : /\ offers[o].status = "pending"
                      /\ offers[o].product = p
                      /\ offers[o].buyer = user}

InFlight == {r \in Users \X Products : creating[r] > 0}

RECURSIVE Sum(_, _)
Sum(f, S) == IF S = {} THEN 0 ELSE LET x == CHOOSE y \in S : TRUE IN f[x] + Sum(f, S \ {x})

\* rows inserted so far, and rows about to be
Inserted == Cardinality({o \in OfferIds : offers[o].status # "none"})
Underway == Sum(creating, InFlight)

\* create_offer, lines 56-86: the checks, none of which locks anything
CreateCheck(user, p) ==
    /\ http.served < MaxRequests
    /\ IF products[p] # "active"
       THEN http' = Response("create", 404, 0, 0) /\ creating' = creating
       ELSE IF Seller = user
       THEN http' = Response("create", 400, 0, 0) /\ creating' = creating
       ELSE IF PendingOf(user, p) # {}
       THEN http' = Response("create", 400, 0, 0) /\ creating' = creating
       ELSE /\ Inserted + Underway < MaxOffers
            /\ creating' = [creating EXCEPT ![<<user, p>>] = @ + 1]
            /\ http' = http
    /\ UNCHANGED <<socketVars, offers, products, expiring>>

\* create_offer, lines 88-121: the row is added and committed
CreateInsert(user, p) ==
    LET o == CHOOSE i \in OfferIds :
                 /\ offers[i].status = "none"
                 /\ \A j \in OfferIds : offers[j].status = "none" => i <= j
    IN
    /\ creating[<<user, p>>] > 0
    /\ creating' = [creating EXCEPT ![<<user, p>>] = @ - 1]
    /\ offers' = [offers EXCEPT ![o] = [status |-> "pending", product |-> p, buyer |-> user,
                                        version |-> InitialVersion, due |-> FALSE]]
    /\ http' = Response("create", 201, o, InitialVersion)
    /\ UNCHANGED <<socketVars, products, expiring>>

\* an OfferUpdate that declared the version field the endpoint reads
OfferUpdateDeclaresVersion == TRUE

\* schemas/offer.py 19-26: OfferUpdate declares status only, so offer_update.version
\* (offers.py 264) raises AttributeError
OfferUpdateHasVersion == FALSE

\* the other pending offers of the product, rejected when an offer is accepted
Rejected(row) == [row EXCEPT !.status = "rejected", !.version = @ + 1]

\* update_offer_status_via_body (lines 239-411), status_value "accepted" or "rejected";
\* the row is locked from its SELECT ... FOR UPDATE to the commit or rollback
RespondOffer(o, status_value, version, user) ==
    LET row == offers[o] IN
    /\ http.served < MaxRequests
    /\ IF ~OfferUpdateHasVersion
       THEN \* no handler catches the AttributeError: the server answers 500
            /\ http' = Response("respond", 500, o, version)
            /\ UNCHANGED <<offers, products>>
       ELSE IF ~Exists(o)
       THEN http' = Response("respond", 404, o, version) /\ UNCHANGED <<offers, products>>
       ELSE IF row.version # version
       THEN http' = Response("respond", 409, o, version) /\ UNCHANGED <<offers, products>>
       ELSE IF Seller # user
       THEN http' = Response("respond", 403, o, version) /\ UNCHANGED <<offers, products>>
       ELSE IF row.status # "pending"
       THEN http' = Response("respond", 400, o, version) /\ UNCHANGED <<offers, products>>
       ELSE IF row.due
       THEN /\ offers' = [offers EXCEPT ![o].status = "expired", ![o].version = @ + 1]
            /\ http' = Response("respond", 400, o, version)
            /\ UNCHANGED products
       ELSE IF status_value = "accepted" /\ products[row.product] # "active"
       THEN \* the HTTPException of lines 348-351 is caught by transaction_scope, which rolls
            \* back and raises a 500
            http' = Response("respond", 500, o, version) /\ UNCHANGED <<offers, products>>
       ELSE /\ http' = Response("respond", 200, o, version)
            /\ IF status_value = "accepted"
               THEN /\ products' = [products EXCEPT ![row.product] = "sold"]
                    /\ offers' = [i \in OfferIds |->
                           IF i = o
                           THEN [row EXCEPT !.status = "accepted", !.version = @ + 1]
                           ELSE IF /\ offers[i].status = "pending"
                                   /\ offers[i].product = row.product
                                THEN Rejected(offers[i])
                                ELSE offers[i]]
               ELSE /\ offers' = [offers EXCEPT ![o].status = "rejected",
                                                ![o].version = @ + 1]
                    /\ UNCHANGED products
    /\ UNCHANGED <<socketVars, creating, expiring>>

\* a cancel that deleted the offer whatever its status
CancellableAlways(row) == TRUE

\* cancel_offer, lines 517-522: only a pending offer is cancelled
Cancellable(row) == row.status = "pending"

\* cancel_offer (lines 465-551); "if not version" takes 0 for a missing field
CancelOffer(o, version, user) ==
    LET row == offers[o] IN
    /\ http.served < MaxRequests
    /\ IF version = 0
       THEN http' = Response("cancel", 400, o, version) /\ offers' = offers
       ELSE IF ~Exists(o)
       THEN http' = Response("cancel", 404, o, version) /\ offers' = offers
       ELSE IF row.version # version
       THEN http' = Response("cancel", 409, o, version) /\ offers' = offers
       ELSE IF row.buyer # user
       THEN http' = Response("cancel", 403, o, version) /\ offers' = offers
       ELSE IF ~Cancellable(row)
       THEN http' = Response("cancel", 400, o, version) /\ offers' = offers
       ELSE /\ offers' = [offers EXCEPT ![o].status = "deleted"]
            /\ http' = Response("cancel", 200, o, version)
    /\ UNCHANGED <<socketVars, products, creating, expiring>>

\* the time passes expires_at of a pending offer
OfferExpires(o) ==
    /\ offers[o].status = "pending"
    /\ ~offers[o].due
    /\ offers' = [offers EXCEPT ![o].due = TRUE]
    /\ UNCHANGED <<socketVars, products, creating, http, expiring>>

\* expire_offers_task, lines 170-189: the query for the pending offers past their
\* expires_at; with none the task returns
ExpireLoad ==
    LET found == {o \in OfferIds : offers[o].status = "pending" /\ offers[o].due} IN
    /\ ~expiring.running
    /\ found # {}
    /\ expiring' = [running |-> TRUE, rows |-> {<<o, offers[o].version>> : o \in found}]
    /\ UNCHANGED <<socketVars, offers, products, creating, http>>

\* expire_offers_task, lines 191-256: the rows are changed in the session and written at
\* the commit, each by an UPDATE on its primary key; a row deleted in between makes the
\* flush raise, and the task rolls back
ExpireCommit ==
    /\ expiring.running
    /\ expiring' = NoTask
    /\ IF \E r \in expiring.rows : ~Exists(r[1])
       THEN offers' = offers
       ELSE offers' = [o \in OfferIds |->
                         IF \E r \in expiring.rows : r[1] = o
                         THEN [offers[o] EXCEPT
                                  !.status = "expired",
                                  !.version = (CHOOSE r \in expiring.rows : r[1] = o)[2] + 1]
                         ELSE offers[o]]
    /\ UNCHANGED <<socketVars, products, creating, http>>

\* what ProductUpdate.status may carry (schemas/product.py 43: any string)
ProductStatuses == {"active", "inactive"}

\* update_product (products.py 135-197) with a status in the body: only the seller may,
\* and the value is stored as given
UpdateProduct(p, status_value, user) ==
    /\ products' = IF Seller # user
                   THEN products    \* 403
                   ELSE [products EXCEPT ![p] = status_value]
    /\ UNCHANGED <<socketVars, offers, creating, http, expiring>>

(***************************************************************************)
(* The coroutines, grouped.  K is the number of connections that arrive.   *)
(***************************************************************************)
Handlers(K) ==
    \/ \E t \in 1..K, token \in Tokens, alive \in BOOLEAN :
            HandlerAuthFail(t, token, alive)
    \/ \E t \in 1..K, token \in Tokens, alive \in BOOLEAN, j \in 0..(JitterSteps - 1) :
            HandlerConnect(t, token, alive, j)
    \/ \E t \in 1..K : HandlerDrain(t)
    \/ \E t \in 1..K : HeartbeatResponse(t)
    \/ \E t \in 1..K : HandlerExit(t)

Clients ==
    \E t \in Transports, mode \in {"halfopen", "broken"} : ClientVanish(t, mode)

Store ==
    \/ StoreFail
    \/ StoreRecover

Probes ==
    \/ \E u \in Users : PingSend(u)
    \/ \E u \in Users : PingTimeout(u)

Sweep ==
    \/ SweepScan
    \/ \E u \in Users : SweepDisconnect(u)
    \/ Tick

Presence ==
    \E u \in Users, reason \in Reasons : PublishDisconnect(u, reason)

Senders ==
    \/ \E u \in Users, message \in ManagerPayloads : SendPersonalMessage(message, u)
    \/ \E message \in ManagerPayloads : BroadcastToChannel(message)

Broadcasts ==
    \/ \E message \in ManagerPayloads, exclude_user \in Users \cup {""} :
            BroadcastStart(message, exclude_user)
    \/ BroadcastStep

Heartbeats ==
    \/ \E t \in Transports : HeartbeatSend(t)
    \/ \E t \in Transports : HeartbeatSent(t)

Producers ==
    \/ \E u \in Users, message \in ManagerPayloads : SendPersonalMessage(message, u)
    \/ \E u \in Users, message \in TaskPayloads : TaskSendNotification(message, u)

Queue ==
    \/ \E t \in 1..Sessions, token \in Tokens, j \in 0..(JitterSteps - 1) :
            HandlerConnect(t, token, TRUE, j)
    \/ \E t \in 1..Sessions : DrainRPop(t)
    \/ \E t \in 1..Sessions : DrainLast(t)
    \/ \E t \in 1..Sessions : DrainReset(t)
    \/ \E u \in Users, message \in QueuePayloads : TaskDecides(message, u)
    \/ \E u \in Users, message \in QueuePayloads : TaskLPush(message, u)
    \/ \E u \in Users, message \in QueuePayloads : ManagerLPush(message, u)
    \/ \E u \in Users : SaveIncr(u)

Tasks ==
    \/ \E u \in Users, message \in QueuePayloads : TaskSendNotification(message, u)
    \/ \E u \in Users, message \in QueuePayloads : TaskDecides(message, u)
    \/ \E u \in Users, message \in QueuePayloads : TaskLPush(message, u)
    \/ \E u \in Users, message \in QueuePayloads : TaskLPushFails(message, u)
    \/ \E u \in Users : SaveIncr(u)
    \/ \E u \in Users : SaveIncrFails(u)

Receive ==
    \E t \in 1..Sessions, data \in InboundFrames : ProcessMessage(t, data)

\* the sessions and the store
Next == Handlers(Sessions) \/ Clients \/ Store \/ Presence

Spec == Init /\ [][Next]_vars

\* the sessions and their probe loops
NextProbe == Handlers(Sessions) \/ Clients \/ Probes

SpecProbe == Init /\ [][NextProbe]_vars

\* delivery: the sessions and the producers, with the store available throughout
NextDelivery == Handlers(Sessions) \/ Clients \/ Producers \/ Presence

SpecDelivery == Init /\ [][NextDelivery]_vars

\* the pending queue, command by command: connects, drains and saves
NextQueue == Queue

SpecQueue == Init /\ [][NextQueue]_vars

\* the background task, command by command, with the store failing and recovering
NextTask ==
    \/ \E t \in 1..Sessions, token \in Tokens, alive \in BOOLEAN, j \in 0..(JitterSteps - 1) :
            HandlerConnect(t, token, alive, j)
    \/ Store
    \/ Tasks

SpecTask == Init /\ [][NextTask]_vars

\* the sessions and the frames their clients send
NextReceive == Handlers(Sessions) \/ Clients \/ Receive

SpecReceive == Init /\ [][NextReceive]_vars

\* the pending queue, command by command, with the store failing and recovering
NextDrain ==
    \/ Queue
    \/ Store
    \/ \E t \in 1..Sessions : DrainFails(t)

SpecDrain == Init /\ [][NextDrain]_vars

\* the idle sweep: the sessions, the sweep and the clock
NextSweep == Handlers(NumTransports) \/ Clients \/ Sweep

SpecSweep == Init /\ [][NextSweep]_vars

\* the manager's producers and one session, with the store failing and recovering
NextSend == Handlers(1) \/ Clients \/ Store \/ Senders

SpecSend == Init /\ [][NextSend]_vars

\* presence: the sessions, the probes and the _publish_disconnect tasks, with the store
\* available throughout; the event loop runs every task it was given
NextPresence == Handlers(Sessions) \/ Clients \/ Probes \/ Presence

SpecPresence ==
    /\ Init
    /\ [][NextPresence]_vars
    /\ \A u \in Users, reason \in Reasons : WF_vars(PublishDisconnect(u, reason))

\* the offers endpoints on the shared database
NextOffers ==
    \/ \E user \in Accounts, p \in Products : CreateCheck(user, p)
    \/ \E user \in Users, p \in Products : CreateInsert(user, p)
    \/ \E o \in OfferIds, status_value \in {"accepted", "rejected"},
          version \in 0..MaxVersion, user \in Accounts :
            RespondOffer(o, status_value, version, user)
    \/ \E o \in OfferIds, version \in 0..MaxVersion, user \in Accounts :
            CancelOffer(o, version, user)
    \/ \E o \in OfferIds : OfferExpires(o)

SpecOffers == Init /\ [][NextOffers]_vars

\* the offers endpoints with the expiry task and the seller's product updates; the
\* requests of the wrong account and without a version are those of SpecOffers
NextMarket ==
    \/ \E user \in Users, p \in Products : CreateCheck(user, p)
    \/ \E user \in Users, p \in Products : CreateInsert(user, p)
    \/ \E o \in OfferIds, status_value \in {"accepted", "rejected"}, version \in 1..MaxVersion :
            RespondOffer(o, status_value, version, Seller)
    \/ \E o \in OfferIds, version \in 1..MaxVersion, user \in Users :
            CancelOffer(o, version, user)
    \/ \E o \in OfferIds : OfferExpires(o)
    \/ ExpireLoad
    \/ ExpireCommit
    \/ \E p \in Products, status_value \in ProductStatuses :
            UpdateProduct(p, status_value, Seller)

SpecMarket == Init /\ [][NextMarket]_vars

\* one broadcast() among the sessions
NextBroadcast == Handlers(Sessions) \/ Clients \/ Broadcasts

SpecBroadcast == Init /\ [][NextBroadcast]_vars

\* the writers of a websocket: the sessions, their probe loops and heartbeat tasks
NextWrites == Handlers(Sessions) \/ Clients \/ Probes \/ Heartbeats

SpecWrites == Init /\ [][NextWrites]_vars

(***************************************************************************)
(* The reconnection records: the manager after earlier connection attempts *)
(* failed, each user's record being one that _handle_reconnection wrote.   *)
(***************************************************************************)
ReconnectionRecords ==
    {NoInfo}
    \cup {[present |-> TRUE, attempts |-> 0, last_backoff |-> InitialBackoff * JitterSteps]}
    \cup {[present |-> TRUE, attempts |-> k, last_backoff |-> Backoff(k, j)] :
             k \in 1..MaxAttempts, j \in 0..(JitterSteps - 1)}

InitRecon ==
    /\ reconnection_info \in [Users -> ReconnectionRecords]
    /\ active_connections = [u \in Users |-> None]
    /\ connection_timestamps = [u \in Users |-> NoTime]
    /\ ongoing_pings = [u \in Users |-> None]
    /\ ping_wait = [u \in Users |-> FALSE]
    /\ failed_ping_users = {}
    /\ publish_tasks = {}
    /\ sweep_stale = {}
    /\ sweep_cur = ""
    /\ listeners = {}
    /\ redis_up = TRUE
    /\ status = [u \in Users |-> "none"]
    /\ presence = [u \in Users |-> NoEvent]
    /\ pending = [u \in Users |-> <<>>]
    /\ pending_count = [u \in Users |-> 0]
    /\ now = 0
    /\ bcast = NoBroadcast
    /\ offers = [o \in OfferIds |-> NoOffer]
    /\ products = [p \in Products |-> "active"]
    /\ creating = [r \in Users \X Products |-> 0]
    /\ http = NoResponse
    /\ expiring = NoTask
    /\ last_ack = [u \in Users |-> NoTime]
    /\ to_push = [u \in Users |-> {}]
    /\ to_incr = [u \in Users |-> 0]
    /\ draining = [t \in Transports |-> NoDrain]
    /\ last_frame = NoFrame
    /\ tstate = [t \in Transports |-> "new"]
    /\ usr = [t \in Transports |-> ""]
    /\ pc = [t \in Transports |-> "idle"]
    /\ sent = [t \in Transports |-> <<>>]
    /\ close_code = [t \in Transports |-> 0]
    /\ close_reason = [t \in Transports |-> ""]
    /\ drained = [t \in Transports |-> <<>>]
    /\ heartbeat = [t \in Transports |-> "none"]
    /\ produced = 0
    /\ last_send = NoSend
    /\ handed = [u \in Users |-> {}]
    /\ enqueued = [u \in Users |-> <<>>]
    /\ misses = [u \in Users |-> 0]
    /\ probe_acked = [u \in Users |-> FALSE]

NextRecon ==
    \/ \E t \in 1..Sessions, token \in Tokens, alive \in BOOLEAN, j \in 0..(JitterSteps - 1) :
            HandlerConnect(t, token, alive, j)
    \/ Store

SpecRecon == InitRecon /\ [][NextRecon]_vars

(***************************************************************************)
(* Claims.                                                                 *)
(***************************************************************************)
\* connect(t, u) returns on this step, with a websocket registered for u before it
ConnectCompletes(t, u) ==
    /\ pc[t] = "idle"
    /\ pc'[t] \in {"connected", "failed"}
    /\ usr'[t] = u
    /\ active_connections[u] # None

Superseded(t, u) ==
    /\ active_connections'[u] = t
    /\ \A v \in Users : active_connections'[v] # active_connections[u]
    /\ tstate'[active_connections[u]] = "closed"
    /\ close_reason'[active_connections[u]] = "new_connection"

AuthFails(t) == pc[t] = "idle" /\ pc'[t] = "rejected"

NothingMutated ==
    UNCHANGED <<active_connections, connection_timestamps, ongoing_pings, ping_wait,
                failed_ping_users, reconnection_info, publish_tasks, listeners,
                status, presence, pending, pending_count>>

ConnectSucceeds(t, u) == pc[t] = "idle" /\ pc'[t] = "connected" /\ usr'[t] = u

\* C8: after N failed attempts for an identity, a connect() that returns True leaves
\* its record with attempts = 0 and last_backoff = 1
C8_ResetOnSuccess ==
    [][\A t \in Transports, u \in Users :
          ConnectSucceeds(t, u) =>
              /\ reconnection_info'[u].present
              /\ reconnection_info'[u].attempts = 0
              /\ reconnection_info'[u].last_backoff = InitialBackoff * JitterSteps]_vars

\* C8, witness: a connect that returned True for a user after an attempt of this run
\* failed for it, the record reset
C8_Witness ==
    \E t0, t \in Transports :
        /\ t0 < t
        /\ usr[t0] = usr[t]
        /\ pc[t0] = "failed"
        /\ pc[t] = "connected"
        /\ reconnection_info[usr[t]].attempts = 0

\* _handle_reconnection ran for u on this step
Reconnection(u) ==
    /\ reconnection_info'[u] # reconnection_info[u]
    /\ reconnection_info'[u].attempts >= 1

\* the backoff function itself: bounded, increasing up to the cap, then constant
BackoffShape ==
    \A k \in 0..MaxAttempts, j1, j2 \in 0..(JitterSteps - 1) :
        /\ Backoff(k, j1) <= max_backoff * JitterSteps
        /\ k < 5 => Backoff(k, j1) < Backoff(k + 1, j2)
        /\ k = 5 => Backoff(k, j1) <= Backoff(k + 1, j2)
        /\ k >= 6 => Backoff(k, j1) = Backoff(k + 1, j2)

\* C9: the backoff stored for attempt count k is min(60, 2^min(k,6) + jitter) with jitter
\* in [0,1), computed from the incremented counter: at most 60, above the backoff of
\* the attempt before up to k = 6, equal to it from then on
C9_Backoff ==
    [][/\ BackoffShape
       /\ \A u \in Users :
            Reconnection(u) =>
                LET old == reconnection_info[u]
                    k   == reconnection_info'[u].attempts
                    b   == reconnection_info'[u].last_backoff
                IN  /\ b <= max_backoff * JitterSteps
                    /\ k <= 5 => /\ Pow2(k) * JitterSteps <= b
                                 /\ b < (Pow2(k) + 1) * JitterSteps
                    /\ k >= 6 => b = max_backoff * JitterSteps
                    /\ (old.present /\ old.attempts >= 1 /\ k = old.attempts + 1) =>
                          IF k <= 6 THEN b > old.last_backoff
                          ELSE b = old.last_backoff]_vars

\* C9, witness: a record whose backoff was computed in this run past the exponent's
\* ceiling
C9_Witness ==
    \E t \in Transports :
        /\ pc[t] = "failed"
        /\ reconnection_info[usr[t]].attempts > MaxPower
        /\ reconnection_info[usr[t]].last_backoff = max_backoff * JitterSteps

Range(seq) == {seq[i] : i \in 1..Len(seq)}

\* send_personal_message(P, u) returns on this step, u absent from the registry and
\* its pending list empty
SendsToAbsent(u) ==
    /\ produced' = produced + 1
    /\ last_send'.by = "manager"
    /\ last_send'.user = u
    /\ last_send'.how = "absent"
    /\ pending[u] = <<>>

\* get_pending_messages(usr[t]) returns to the handler of t on this step
Drains(t) == pc[t] = "connected" /\ pc'[t] # "connected"

\* C2: send_personal_message(P, id) to an identity absent from the registry with an empty
\* pending list returns False and leaves P as the sole pending entry; the following
\* get_pending_messages(id) returns exactly [P], leaves the list empty and the count at 0
C2_SendThenDrain ==
    [][/\ \A u \in Users :
            SendsToAbsent(u) =>
                /\ ~last_send'.result
                /\ pending'[u] = <<Encode(last_send'.payload)>>
       /\ \A t \in Transports :
            LET u == usr[t] IN
            (/\ Drains(t)
             /\ Len(enqueued[u]) = 1
             /\ pending[u] = <<Encode(enqueued[u][1])>>) =>
                /\ drained'[t] = enqueued[u]
                /\ pending'[u] = <<>>
                /\ pending_count'[u] = 0]_vars

\* C3: with no drain in between, get_pending_messages returns the payloads enqueued for
\* the identity, by the manager or by the background task, in the order of the enqueues
C3_DrainInOrder ==
    [][\A t \in Transports :
          LET u == usr[t] IN
          (Drains(t) /\ Len(pending[u]) = Len(enqueued[u])) =>
              drained'[t] = enqueued[u]]_vars

\* the texts of the payload frames written to a websocket of u
Written(u) ==
    UNION {{Encode(f.p) : f \in {g \in Range(sent[t]) : g.k = "payload"}} :
              t \in {x \in Transports : usr[x] = u}}

\* C4: with the store available, every object payload handed to send_personal_message or
\* to send_notification for an identity has been written to a websocket of the identity
\* or is in its pending list
C4_NothingLost ==
    \A u \in Users : \A P \in handed[u] \cap TaskPayloads :
        \/ Encode(P) \in Written(u)
        \/ Encode(P) \in Range(pending[u])

\* the probe loop of u removes u from the registry on this step, at the end of a pong
\* timeout
ProbeLoopDisconnects(u) ==
    /\ ping_wait[u]
    /\ pc' = pc
    /\ active_connections[u] # None
    /\ active_connections'[u] = None

\* C5: the probe loop force-disconnects a session exactly at its third consecutive
\* unacknowledged probe, with reason "ping_timeout"
C5_ThirdMiss ==
    [][\A u \in Users :
          ProbeLoopDisconnects(u) =>
              /\ misses'[u] = 3
              /\ close_reason'[active_connections[u]] = "ping_timeout"]_vars

\* the sweep removes the registration of u on this step
SweepRemoves(u) ==
    /\ pc' = pc
    /\ now' = now
    /\ active_connections[u] # None
    /\ active_connections'[u] = None

\* the sweep scans the timestamps on this step and finds a stale session
Scans ==
    /\ sweep_cur = ""
    /\ sweep_stale = {}
    /\ pc' = pc
    /\ now' = now
    /\ sweep_cur' # "" \/ active_connections' # active_connections

\* C6: a run of the sweep disconnects every registered session whose last activity is
\* more than 120 s old, and leaves registered the sessions with activity in the last 120 s
C6_SweepOnlyStale ==
    [][\A u \in Users :
          /\ SweepRemoves(u) => Stale(u)
          /\ (Scans /\ Stale(u)) =>
                 \/ active_connections'[u] = None
                 \/ u \in sweep_stale' \cup {sweep_cur'}]_vars

\* C7: u1's client vanishes without a close frame; send_personal_message(P, "u1"), P an
\* object, then returns False with P in u1's pending list, and when u1 reconnects its
\* websocket gets connection_status, then P, and a pending_delivered of count 1
C7_VanishThenQueue ==
    [][/\ (/\ produced' = produced + 1
           /\ last_send'.by = "manager"
           /\ last_send'.how \in {"halfopen", "broken"}
           /\ last_send'.payload \in TaskPayloads) =>
              /\ ~last_send'.result
              /\ Encode(last_send'.payload) \in Range(pending'[last_send'.user])
       /\ \A t \in Transports :
            LET u == usr[t] IN
            (/\ Drains(t)
             /\ tstate[t] = "open"
             /\ sent[t] = <<ConnectionStatusFrame>>
             /\ Len(enqueued[u]) = 1
             /\ enqueued[u][1] \in TaskPayloads
             /\ pending[u] = <<Encode(enqueued[u][1])>>) =>
                /\ Len(sent'[t]) >= 3
                /\ sent'[t][1] = ConnectionStatusFrame
                /\ sent'[t][2] = PayloadFrame(enqueued[u][1])
                /\ sent'[t][3] = PendingDeliveredFrame(1)]_vars

\* C11: send_personal_message(P, id) with id absent from the registry publishes P on
\* id's notifications channel and puts P in id's pending list
C11_PublishAndEnqueue ==
    [][(/\ produced' = produced + 1
        /\ last_send'.by = "manager"
        /\ last_send'.how = "absent") =>
           /\ last_send'.published
           /\ Encode(last_send'.payload) \in Range(pending'[last_send'.user])]_vars

\* the session of websocket t was registered and is no longer: the client disconnected,
\* the transport failed, it was force-disconnected or superseded
Closed(t) ==
    /\ usr[t] # ""
    /\ pc[t] \in {"connected", "receiving", "crashed", "done"}
    /\ active_connections[usr[t]] # t

\* C12: once a session is Closed its probe task, its heartbeat task and its listener task
\* are not running and the listener is not subscribed
C12_TeardownCancelsTasks ==
    \A t \in Transports :
        Closed(t) =>
            /\ ongoing_pings[usr[t]] # t
            /\ heartbeat[t] \notin {"sleeping", "sending"}
            /\ t \notin listeners

\* C13: writes to one websocket are serialized: while one send on it is in flight (here
\* the heartbeat's) no other writer's frame goes to it
C13_WritesSerialized ==
    [][\A t \in Transports :
          (heartbeat[t] = "sending" /\ heartbeat'[t] = "sending") =>
              sent'[t] = sent[t]]_vars

\* C14: between a successful connect and the end of the handler's pending drain no
\* payload of a concurrent send_personal_message or publish is written to the new websocket
C14_DrainBeforeLive ==
    [][\A t \in Transports :
          (pc[t] = "connected" /\ pc'[t] = "connected" /\ sent'[t] # sent[t]) =>
              sent'[t][Len(sent'[t])].k # "payload"]_vars

\* C15: when the store is unreachable as connect() publishes presence, connect() still
\* returns True, the identity stays registered and the handler goes on
C15_StoreDownNonFatal ==
    [][\A t \in Transports, u \in Users :
          (/\ pc[t] = "idle"
           /\ usr'[t] = u
           /\ tstate'[t] = "open"
           /\ ~redis_up) =>
              /\ pc'[t] = "connected"
              /\ active_connections'[u] = t]_vars

\* a direct send by the manager to a registered identity whose transport refuses the write
DirectSendFails ==
    /\ produced' = produced + 1
    /\ last_send'.by = "manager"
    /\ last_send'.how \notin {"absent", "open", "halfopen"}

\* the identity of the send is out of the registry, with its timestamp and probe task
Unregistered(u) ==
    /\ active_connections'[u] = None
    /\ connection_timestamps'[u] = NoTime
    /\ ongoing_pings'[u] = None

\* C16 as stated: a transport error on a direct send removes the identity from the
\* registry, puts the payload in its pending queue and returns False
C16_FailedSendQueues ==
    [][DirectSendFails =>
          /\ Unregistered(last_send'.user)
          /\ pending'[last_send'.user] =
                 LPush(pending[last_send'.user], Encode(last_send'.payload))
          /\ last_send'.result = FALSE]_vars

\* C16: a transport error on a direct send removes the identity from the registry and
\* returns False; the payload is put in its pending queue when the store is reachable,
\* and is in no queue when it is not
C16_FailedSendQueuesIfStoreUp ==
    [][DirectSendFails =>
          /\ Unregistered(last_send'.user)
          /\ last_send'.result = FALSE
          /\ redis_up =>
                 pending'[last_send'.user] =
                     LPush(pending[last_send'.user], Encode(last_send'.payload))
          /\ ~redis_up => pending' = pending]_vars

C16_Witness ==
    /\ last_send.by = "manager"
    /\ last_send.how = "broken"
    /\ last_send.result = FALSE
    /\ active_connections[last_send.user] = None
    /\ pending[last_send.user] # <<>>
    /\ pending[last_send.user][1] = Encode(last_send.payload)

\* a producer's call to the manager returns
ManagerCall ==
    /\ produced' = produced + 1
    /\ last_send'.by \in {"manager", "channel"}

\* the payload of the call went out on the transport or on the store's channel
Delivered ==
    \/ /\ last_send'.by = "manager"
       /\ active_connections[last_send'.user] # None
       /\ sent'[active_connections[last_send'.user]] =
              Append(sent[active_connections[last_send'.user]],
                     PayloadFrame(last_send'.payload))
    \/ /\ last_send'.by = "channel"
       /\ last_send'.published
       /\ redis_up

\* C17: send_personal_message and broadcast_to_channel never raise into the producer;
\* they return a boolean, and True only when the payload was written or published
C17_NeverRaises ==
    [][ManagerCall =>
          /\ last_send'.raised = FALSE
          /\ last_send'.result \in BOOLEAN
          /\ last_send'.result => Delivered]_vars

C17_Witness ==
    /\ last_send.by = "manager"
    /\ last_send.how = "broken"
    /\ ~redis_up
    /\ last_send.raised = FALSE
    /\ last_send.result = FALSE

\* connect() returns True for user u
ConnectReturnsTrue(u) ==
    \E t \in Transports : pc[t] = "idle" /\ pc'[t] = "connected" /\ usr'[t] = u

\* the registry entry of u is removed
EntryRemoved(u) == active_connections[u] # None /\ active_connections'[u] = None

\* C18: with the store available, each successful connect sets the status key to
\* "online" and publishes an online event; each removal of a registry entry hands a
\* _publish_disconnect task to the loop, and every such task eventually sets the status
\* key to "offline" and publishes an offline event carrying its reason
C18_PresencePublished ==
    /\ [][\A u \in Users :
             /\ ConnectReturnsTrue(u) => status'[u] = "online" /\ presence'[u] = OnlineEvent
             /\ EntryRemoved(u) => \E reason \in Reasons : <<u, reason>> \in publish_tasks']_vars
    /\ \A u \in Users, reason \in Reasons :
           (<<u, reason>> \in publish_tasks) ~>
               (status[u] = "offline" /\ presence[u] = OfflineEvent(reason))

C18_Witness ==
    \E u \in Users :
        /\ active_connections[u] = None
        /\ publish_tasks = {}
        /\ status[u] = "offline"
        /\ presence[u] = OfflineEvent("ping_error")

\* a _publish_disconnect task for u is still to run
PublishPending(u) == \E reason \in Reasons : <<u, reason>> \in publish_tasks

\* C19: whenever the status key of an identity is "online" and no _publish_disconnect
\* task for it is pending, a session of that identity is registered
C19_OnlineImpliesRegistered ==
    \A u \in Users :
        (status[u] = "online" /\ ~PublishPending(u)) => active_connections[u] # None

\* C20: broadcast completes without raising, whatever connects or disconnects while it
\* is in progress
C20_BroadcastNeverRaises == bcast.state # "raised"

\* the registry entry, the timestamp and the probe task of u are gone, and a
\* _publish_disconnect task with the reason is spawned
TornDown(u, reason) ==
    /\ active_connections'[u] = None
    /\ connection_timestamps'[u] = NoTime
    /\ ongoing_pings'[u] = None
    /\ <<u, reason>> \in publish_tasks'

\* the sweep's force_disconnect(u, "stale_connection") starts on this step, on a
\* websocket that takes the frame
ForceStarts(u) == sweep_cur # u /\ sweep_cur' = u

\* it resumes after its writes and reaches self.disconnect
ForceResumes(u) == sweep_cur = u /\ sweep_cur' # u

\* it runs through on this step, the write of the frame raising
ForceFails(u) ==
    /\ SweepRemoves(u)
    /\ sweep_cur # u
    /\ ~Writable(active_connections[u])

\* C21: force_disconnect of a registered identity writes the system/disconnect frame
\* with the reason, closes the websocket with code 1000, and then does the teardown of
\* disconnect; the teardown is done as well when the write of the frame raises
C21_ForceDisconnect ==
    [][\A u \in Users :
          /\ ForceStarts(u) =>
                LET ws == active_connections[u] IN
                /\ ws # None
                /\ sent'[ws] = Append(sent[ws], DisconnectFrame("stale_connection"))
                /\ tstate'[ws] = "closed"
                /\ close_code'[ws] = 1000
                /\ close_reason'[ws] = "stale_connection"
                /\ active_connections'[u] = ws
          /\ (ForceResumes(u) /\ active_connections[u] # None) =>
                TornDown(u, "stale_connection")
          /\ ForceFails(u) =>
                /\ sent'[active_connections[u]] = sent[active_connections[u]]
                /\ TornDown(u, "stale_connection")]_vars

\* a stale session whose websocket refuses the frame has been torn down
C21_Witness ==
    \E u \in Users, t \in Transports :
        /\ usr[t] = u
        /\ tstate[t] = "broken"
        /\ DisconnectFrame("stale_connection") \notin Range(sent[t])
        /\ active_connections[u] = None
        /\ connection_timestamps[u] = NoTime
        /\ <<u, "stale_connection">> \in publish_tasks

\* a respond or cancel request is answered on this step, and the version it carried is
\* not the current version of its offer
StaleVersionRequest ==
    /\ http'.served = http.served + 1
    /\ http'.op \in {"respond", "cancel"}
    /\ Exists(http'.offer)
    /\ http'.version # offers[http'.offer].version

\* C22: a respond or cancel request carrying a version other than the current version of
\* the offer is answered 409 Conflict, and leaves every offer and every product as it was
C22_VersionConflict ==
    [][StaleVersionRequest =>
          /\ http'.code = 409
          /\ offers' = offers
          /\ products' = products]_vars

\* the failure counter of u goes up on this step
FailureCounted(u) == u \in failed_ping_users' /\ u \notin failed_ping_users

\* C23: a session whose client acknowledged the probe in flight before its timeout is not
\* force-disconnected by the probe loop, and its failure counter is not incremented
C23_AckedProbeKeeps ==
    [][\A u \in Users :
          (ProbeLoopDisconnects(u) \/ FailureCounted(u)) => ~probe_acked[u]]_vars

\* a heartbeat_response of the registered session of u is taken in on this step
AckArrives(u) == last_ack'[u] # last_ack[u]

\* the client of u acknowledged within the last 120 s
AckedLately(u) == last_ack[u] # NoTime /\ now - last_ack[u] <= 120

\* C24: a heartbeat_response refreshes the last-activity timestamp of the session, and
\* the idle sweep does not disconnect a session that acknowledged in the last 120 s
C24_AckRefreshes ==
    [][\A u \in Users :
          /\ AckArrives(u) => connection_timestamps'[u] = now
          /\ SweepRemoves(u) => ~AckedLately(u)]_vars

\* the connection of u fails or ends: connect returns False, or the registry entry of u
\* is removed by a client disconnect, a transport error or a forced disconnect
ConnectionEnds(u) ==
    \/ EntryRemoved(u)
    \/ \E t \in Transports : pc[t] = "idle" /\ pc'[t] = "failed" /\ usr'[t] = u

\* C25: every failed or ended connection increments the reconnection attempt counter
\* of its identity by exactly one and stores a backoff computed from the new count
C25_EveryEndCounts ==
    [][\A u \in Users :
          ConnectionEnds(u) =>
              /\ reconnection_info'[u].attempts = reconnection_info[u].attempts + 1
              /\ \E j \in 0..(JitterSteps - 1) :
                    reconnection_info'[u].last_backoff =
                        Backoff(reconnection_info'[u].attempts, j)]_vars

\* connect(websocket, u) returns False
ConnectReturnsFalse(u) ==
    \E t \in Transports : pc[t] = "idle" /\ pc'[t] = "failed" /\ usr'[t] = u

\* C26: a connect that returns False never leaves the attempt counter of its identity
\* lower than it was before the call
C26_FailureKeepsCount ==
    [][\A u \in Users :
          ConnectReturnsFalse(u) =>
              reconnection_info'[u].attempts >= reconnection_info[u].attempts]_vars

\* no save for u is between its lpush and its incr, and no get_pending_messages call
\* for u is between its first rpop and its return
QueueQuiet(u) ==
    /\ to_incr[u] = 0
    /\ \A t \in Transports : usr[t] = u => draining[t].phase = "idle"

\* C27: whenever no enqueue and no drain for a user is in progress, the pending_count
\* key equals the length of the user's pending list
C27_CountTracksQueue ==
    \A u \in Users : QueueQuiet(u) => pending_count[u] = Len(pending[u])

\* the task's publish of a notification for u reaches at least one subscriber
Published(u) == status[u] = "online" /\ Subscribers(u) # {}

\* the step appends the payload once to the pending list of u
AppendedOnce(u, message) == pending'[u] = LPush(pending[u], Encode(message))

\* send_notification(u, message) returns in this step after a run of its own
TaskReturnsAtOnce(u, message) ==
    /\ produced' = produced + 1
    /\ to_push' = to_push
    /\ last_send'.by = "task"
    /\ last_send'.user = u
    /\ last_send'.payload = message

\* send_notification(u, message) is past its save in this step
TaskReturnsLater(u, message) == message \in to_push[u] /\ message \notin to_push'[u]

\* C28: a send_notification that completes without exception has either published the
\* notification to at least one subscriber or appended it once to the pending list of
\* the user, never both and never neither
C28_PublishedOrQueued ==
    [][\A u \in Users, message \in QueuePayloads :
          /\ TaskReturnsAtOnce(u, message) =>
                IF Published(u) THEN pending'[u] = pending[u]
                ELSE AppendedOnce(u, message)
          /\ TaskReturnsLater(u, message) => AppendedOnce(u, message)]_vars

\* process_message(data, usr[t]) runs in this step on a frame it takes no branch for
Ignores(t, data) ==
    /\ last_frame' # last_frame
    /\ last_frame' = [ws |-> t, data |-> data]

\* C29: a frame that is not valid JSON, is not a JSON object or has an unknown type is
\* ignored: every session stays registered, the receiving session stays in its receive
\* loop, and no pending queue, channel or transport of another session is written
C29_MalformedIgnored ==
    [][\A t \in Transports, data \in InboundFrames :
          Ignores(t, data) =>
              /\ active_connections' = active_connections
              /\ pc'[t] = "receiving"
              /\ pending' = pending
              /\ pending_count' = pending_count
              /\ presence' = presence
              /\ publish_tasks' = publish_tasks
              /\ last_send' = last_send
              /\ \A x \in Transports \ {t} :
                    sent'[x] = sent[x] /\ tstate'[x] = tstate[x]]_vars

\* a registered session, another one beside it, has just skipped a frame that is JSON
\* but not an object
C29_Witness ==
    /\ last_frame.ws # None
    /\ FrameError(last_frame.data) = "AttributeError"
    /\ pc[last_frame.ws] = "receiving"
    /\ active_connections[usr[last_frame.ws]] = last_frame.ws
    /\ \E x \in Transports \ {last_frame.ws} : pc[x] = "receiving"

\* C30: for each buyer and product at most one offer has status pending, also when
\* the buyer's create_offer requests run together
C30_OnePendingOffer ==
    \A user \in Accounts, p \in Products : Cardinality(PendingOf(user, p)) <= 1

\* the handler of websocket t leaves its receive loop and calls disconnect, while the
\* registry binds its user to another websocket
StaleHandlerExits(t) ==
    /\ pc[t] = "receiving"
    /\ pc'[t] = "done"
    /\ active_connections[usr[t]] \notin {None, t}

\* C31: the exit of the handler of a superseded session leaves the newer session of the
\* same user registered, with its timestamp and probe task, and spawns no offline
\* presence for it
C31_StaleExitKeepsNewer ==
    [][\A t \in Transports :
          StaleHandlerExits(t) =>
              /\ active_connections'[usr[t]] = active_connections[usr[t]]
              /\ connection_timestamps'[usr[t]] = connection_timestamps[usr[t]]
              /\ ongoing_pings'[usr[t]] = ongoing_pings[usr[t]]
              /\ publish_tasks' = publish_tasks]_vars

\* the handler of t goes from the return of get_pending_messages to its receive loop
DeliversDrained(t) == pc[t] = "connected" /\ pc'[t] = "receiving" /\ drained'[t] # <<>>

IsPayloadFrame(f) == f.k = "payload"

\* the payload frames the step writes to t
PayloadsWritten(t) ==
    SelectSeq(SubSeq(sent'[t], Len(sent[t]) + 1, Len(sent'[t])), IsPayloadFrame)

\* C32: on reconnect the handler writes each drained message once, in order, before
\* the connected notice
C32_DrainedSentOnce ==
    [][\A t \in Transports :
          DeliversDrained(t) =>
              /\ PayloadsWritten(t) = Frames(drained'[t])
              /\ sent'[t][Len(sent'[t])] = ConnectedFrame]_vars

\* connect(t, u) returns False
ConnectFails(t, u) == pc[t] = "idle" /\ pc'[t] = "failed" /\ usr'[t] = u

\* C33: when connect(t, u) returns False, the registry does not bind u to t, no
\* timestamp is kept for a session of t, and neither the probe task nor the listener
\* task the call started for t is still there
C33_FailedConnectLeavesNothing ==
    [][\A t \in Transports, u \in Users :
          ConnectFails(t, u) =>
              /\ active_connections'[u] # t
              /\ connection_timestamps'[u] # NoTime => active_connections'[u] \notin {None, t}
              /\ ongoing_pings'[u] # t
              /\ t \notin listeners']_vars

\* get_pending_messages returns to the handler of t
DrainReturns(t) == pc[t] = "connected" /\ pc'[t] # "connected"

\* C34: what get_pending_messages returns is every entry it popped, and a store failure
\* part-way leaves the entries not yet popped in the list
C34_DrainKeepsPopped ==
    [][\A t \in Transports :
          DrainReturns(t) =>
              /\ drained'[t] = draining[t].msgs
              /\ ~redis_up => pending' = pending]_vars

\* no coroutine of the manager is suspended inside broadcast or the sweep's
\* force_disconnect
ManagerIdle == bcast.state # "running" /\ sweep_cur = ""

\* C35: whenever no manager coroutine is suspended mid-operation, connection_timestamps
\* and ongoing_pings have exactly the keys of active_connections
C35_MapsAligned ==
    ManagerIdle =>
        \A u \in Users :
            /\ (connection_timestamps[u] # NoTime) <=> (active_connections[u] # None)
            /\ (ongoing_pings[u] # None) <=> (active_connections[u] # None)

\* every connect call and every _publish_disconnect task for u has completed
PresenceSettled(u) == \A reason \in Reasons : <<u, reason>> \notin publish_tasks

\* C36: with the store available throughout, once the connects and the
\* _publish_disconnect tasks of a user have completed, its status key is "online" if the
\* user is in the registry and is not "online" otherwise
C36_PresenceConverges ==
    \A u \in Users :
        PresenceSettled(u) =>
            IF active_connections[u] # None
            THEN status[u] = "online"
            ELSE status[u] \in {"offline", "none"}

\* the offers of product p with status accepted
AcceptedOf(p) == {o \in OfferIds : offers[o].status = "accepted" /\ offers[o].product = p}

FinalStatuses == {"accepted", "rejected", "expired"}

====
